---------------------------- MODULE Spec2Model ----------------------------
(***************************************************************************)
(* HoverPressedAnimation of cosmic-theme/src/model/animation.rs: the       *)
(* per-widget hover/press animation state machine, its tick, and the f32   *)
(* arithmetic the tick performs.                                           *)
(*                                                                         *)
(* f32 values are modelled as the IEEE-754 extended reals: a finite value  *)
(* is a multiple of 1/Scale, and +inf, -inf and NaN are values of their    *)
(* own.  Durations are powers of two and instants are whole milliseconds,  *)
(* so every quotient, cube, sum and difference the tick computes is a      *)
(* dyadic rational that both f32 and the 1/Scale grid hold exactly: the    *)
(* model's arithmetic is the code's arithmetic, without rounding.  The      *)
(* arithmetic of mix does round, and is modelled in binary32 (below).      *)
(***************************************************************************)
EXTENDS Integers, Sequences, FiniteSets, TLC

VARIABLES
    anim,          \* the HoverPressedAnimation instance (its five fields)
    clock,         \* the monotonic clock: the value Instant::now() returns
    needs_redraw,  \* the value returned by the latest bool-returning call
    last,          \* the latest call: its name, its arguments, the state it found
    blend          \* a call of mix: its arguments and, once made, its result

vars == <<anim, clock, needs_redraw, last, blend>>

-----------------------------------------------------------------------------
(* Bounds of the model. *)

\* The clock of the unconstrained specification stops at MaxTime milliseconds.
MaxTime == 7

\* The most milliseconds that pass between two calls.
MaxStep == 2

-----------------------------------------------------------------------------
(* f32 *)

\* One unit of the grid is 1/Scale: the coarsest grid that holds the cube of
\* a fraction whose denominator is the longest duration (4 ms).
Scale == 64

Fin(n) == [k |-> "fin", v |-> n]
PosInf == [k |-> "inf", v |-> 0]
NegInf == [k |-> "ninf", v |-> 0]
NaN == [k |-> "nan", v |-> 0]

\* The literals 0.0, 1.0 and 1f32.
Zero == Fin(0)
One == Fin(Scale)

\* `n as f32` / `n as f64` of an integer n.
FromInt(n) == Fin(n * Scale)

\* The f32 values.  The operations below are functions of them, so that an
\* operand is evaluated once, as the machine evaluates it.
F32 == [k : {"fin", "inf", "ninf", "nan"}, v : Int]

\* a == b on f32: NaN equals nothing, itself included.
FEq[a \in F32, b \in F32] == a.k # "nan" /\ b.k # "nan" /\ a = b

\* a != b on f32.
FNe[a \in F32, b \in F32] == ~FEq[a, b]

\* a < b on f32: false when either is NaN.
FLt[a \in F32, b \in F32] ==
    /\ a.k # "nan"
    /\ b.k # "nan"
    /\ a # b
    /\ \/ a.k = "ninf"
       \/ b.k = "inf"
       \/ a.k = "fin" /\ b.k = "fin" /\ a.v < b.v

\* -a on f32.
FNeg[a \in F32] ==
    CASE a.k = "fin" -> Fin(-a.v)
      [] a.k = "inf" -> NegInf
      [] a.k = "ninf" -> PosInf
      [] OTHER -> NaN

\* a + b on f32.
FAdd[a \in F32, b \in F32] ==
    CASE a.k = "nan" \/ b.k = "nan" -> NaN
      [] a.k = "fin" /\ b.k = "fin" -> Fin(a.v + b.v)
      [] a.k = "fin" -> b
      [] b.k = "fin" -> a
      [] a.k = b.k -> a
      [] OTHER -> NaN

\* a - b on f32.
FSub[a \in F32, b \in F32] == FAdd[a, FNeg[b]]

\* The sign of a value that is not NaN.
Sign[a \in F32] ==
    CASE a.k = "inf" -> 1
      [] a.k = "ninf" -> -1
      [] a.v > 0 -> 1
      [] a.v < 0 -> -1
      [] OTHER -> 0

\* Integer division that truncates toward zero.
Quot[n \in Int, d \in Int] == IF n >= 0 THEN n \div d ELSE -((-n) \div d)

\* a * b on f32.
FMul[a \in F32, b \in F32] ==
    CASE a.k = "nan" \/ b.k = "nan" -> NaN
      [] a.k = "fin" /\ b.k = "fin" -> Fin(Quot[a.v * b.v, Scale])
      [] Sign[a] * Sign[b] > 0 -> PosInf
      [] Sign[a] * Sign[b] < 0 -> NegInf
      [] OTHER -> NaN

\* a / b on f32 (and on f64), for b >= 0: x/0 is an infinity and 0/0 is NaN.
FDiv[a \in F32, b \in F32] ==
    CASE a.k = "nan" \/ b.k = "nan" -> NaN
      [] a.k = "fin" /\ b.k = "fin" /\ b.v # 0 -> Fin(Quot[a.v * Scale, b.v])
      [] a.k = "fin" /\ b.k = "fin" /\ a.v = 0 -> NaN
      [] a.k = "fin" /\ b.k = "fin" -> IF a.v > 0 THEN PosInf ELSE NegInf
      [] b.k = "fin" -> a
      [] a.k = "fin" -> Zero
      [] OTHER -> NaN

\* f32::clamp(self, min, max): NaN stays NaN.
FClamp[x \in F32, min \in F32, max \in F32] ==
    IF FLt[x, min] THEN min
    ELSE IF FLt[max, x] THEN max
    ELSE x

-----------------------------------------------------------------------------
(* The types of animation.rs *)

Forward == "Forward"
Backward == "Backward"
AnimationDirection == {Forward, Backward}

Linear == "Linear"
EaseOut == "EaseOut"
NoEffect == "None"
AnimationEffect == {Linear, EaseOut, NoEffect}

\* Option<Instant>: None, or Some(t) with t in milliseconds.
None == <<>>
Some(t) == <<t>>

\* HoverPressedAnimation::new(effect): the Default of every other field.
new(e) ==
    [direction |-> Forward,
     started_at |-> None,
     animation_progress |-> Zero,
     initial_progress |-> Zero,
     effect |-> e]

is_running(self) == self.started_at # None

\* reset with the defect of keeping the baseline of the run it discards.
reset_keep_baseline(self) ==
    [self EXCEPT !.direction = Forward,
                 !.started_at = None,
                 !.animation_progress = Zero]

\* reset(&mut self).
reset(self) ==
    [self EXCEPT !.direction = Forward,
                 !.started_at = None,
                 !.animation_progress = Zero,
                 !.initial_progress = Zero]

-----------------------------------------------------------------------------
(* on_redraw_request_update *)

\* (now - started_at).as_millis(): Instant subtraction saturates at zero.
ElapsedMillis(now, started_at) ==
    IF now >= started_at[1] THEN now - started_at[1] ELSE 0

\* ease_out_cubic(t): p = t - 1; p * p * p + 1.
ease_out_cubic(t) ==
    LET p == FSub[t, One]
    IN  FAdd[FMul[FMul[p, p], p], One]

\* SnapForward with the defect of snapping whatever the forward duration is.
SnapForwardAlways(self, forward_duration_ms) ==
    [self EXCEPT !.animation_progress = One]

\* `if forward_duration_ms == 0 { self.animation_progress = 1.0; }`
SnapForward(self, forward_duration_ms) ==
    IF forward_duration_ms = 0
    THEN [self EXCEPT !.animation_progress = One]
    ELSE self

\* UnwindCompleted with the defect of testing for the other direction.
UnwindCompletedWrongDirection(self) ==
    FEq[self.animation_progress, Zero] /\ self.direction = Forward

\* `self.animation_progress == 0.0 && self.direction == Backward`
UnwindCompleted(self) ==
    FEq[self.animation_progress, Zero] /\ self.direction = Backward

\* The fraction of the duration that has elapsed, as the effect's arm computes it.
Fraction(now, started_at, duration_ms) ==
    FDiv[FromInt(ElapsedMillis(now, started_at)), FromInt(duration_ms)]

\* EvaluateProgress with the defect of dividing by the forward duration in
\* the Backward arms too.
EvaluateProgressOneDuration(self, forward_duration_ms, backward_duration_ms, now) ==
    LET fwd == Fraction(now, self.started_at, forward_duration_ms)
    IN  CASE self.effect = Linear /\ self.direction = Forward ->
                FClamp[FAdd[self.initial_progress, fwd], Zero, One]
          [] self.effect = Linear /\ self.direction = Backward ->
                FClamp[FSub[self.initial_progress, fwd], Zero, One]
          [] self.effect = EaseOut /\ self.direction = Forward ->
                FClamp[FAdd[self.initial_progress, ease_out_cubic(fwd)], Zero, One]
          [] self.effect = EaseOut /\ self.direction = Backward ->
                FClamp[FSub[self.initial_progress, ease_out_cubic(fwd)], Zero, One]
          [] OTHER -> self.animation_progress

\* `match &mut self.effect { ... }`: the new progress.
EvaluateProgress(self, forward_duration_ms, backward_duration_ms, now) ==
    LET fwd == Fraction(now, self.started_at, forward_duration_ms)
        bwd == Fraction(now, self.started_at, backward_duration_ms)
    IN  CASE self.effect = Linear /\ self.direction = Forward ->
                FClamp[FAdd[self.initial_progress, fwd], Zero, One]
          [] self.effect = Linear /\ self.direction = Backward ->
                FClamp[FSub[self.initial_progress, bwd], Zero, One]
          [] self.effect = EaseOut /\ self.direction = Forward ->
                FClamp[FAdd[self.initial_progress, ease_out_cubic(fwd)], Zero, One]
          [] self.effect = EaseOut /\ self.direction = Backward ->
                FClamp[FSub[self.initial_progress, ease_out_cubic(bwd)], Zero, One]
          [] OTHER -> self.animation_progress

\* RunningResult with the defect of reporting that no redraw is needed.
RunningResultFalse == FALSE

\* The value the tick returns when the animation is running.
RunningResult == TRUE

\* on_redraw_request_update with the defect of restoring the whole rest state
\* when the unwind has completed.
on_redraw_request_update_resets(self, forward_duration_ms, backward_duration_ms, now) ==
    IF self.started_at # None
    THEN LET snapped == SnapForward(self, forward_duration_ms)
         IN  [self |-> IF UnwindCompleted(snapped)
                       THEN reset(snapped)
                       ELSE [snapped EXCEPT !.animation_progress =
                                EvaluateProgress(snapped, forward_duration_ms,
                                                 backward_duration_ms, now)],
              ret |-> RunningResult]
    ELSE [self |-> self, ret |-> FALSE]

\* on_redraw_request_update(&mut self, forward_duration_ms, backward_duration_ms, now):
\* the state it leaves and the value it returns.
on_redraw_request_update(self, forward_duration_ms, backward_duration_ms, now) ==
    IF self.started_at # None
    THEN LET snapped == SnapForward(self, forward_duration_ms)
         IN  [self |-> IF UnwindCompleted(snapped)
                       THEN [snapped EXCEPT !.started_at = None]
                       ELSE [snapped EXCEPT !.animation_progress =
                                EvaluateProgress(snapped, forward_duration_ms,
                                                 backward_duration_ms, now)],
              ret |-> RunningResult]
    ELSE [self |-> self, ret |-> FALSE]

-----------------------------------------------------------------------------
(* The input events *)

\* Retarget with the defect of starting the new run from 0.0.
RetargetFromZero(self, d, now) ==
    [self EXCEPT !.direction = d,
                 !.animation_progress = Zero,
                 !.initial_progress = Zero,
                 !.started_at = Some(now)]

\* `self.direction = d; self.initial_progress = self.animation_progress;
\* self.started_at = Some(Instant::now())`: a run in direction d from the
\* current progress.
Retarget(self, d, now) ==
    [self EXCEPT !.direction = d,
                 !.initial_progress = self.animation_progress,
                 !.started_at = Some(now)]

\* EnterWhileRunning with the defect of restarting a Forward run too.
EnterWhileRunningRestart(self, now) ==
    [self EXCEPT !.direction = Forward,
                 !.initial_progress = self.animation_progress,
                 !.started_at = Some(now)]

\* The cursor re-enters the widget's area while a run is in flight.
EnterWhileRunning(self, now) ==
    IF self.direction = Backward
    THEN Retarget(self, Forward, now)
    ELSE self

\* EnterResult with the defect of always asking for a redraw.
EnterResultTrue(self) == TRUE

\* The value on_cursor_moved_update returns in its entering branches.
EnterResult(self) == FNe[self.animation_progress, One]

\* on_cursor_moved_update(&mut self, is_mouse_over), with now = Instant::now().
on_cursor_moved_update(self, is_mouse_over, now) ==
    IF is_mouse_over
    THEN LET after ==
                 IF self.started_at # None
                 THEN EnterWhileRunning(self, now)
                 ELSE [self EXCEPT !.direction = Forward,
                                   !.started_at = Some(now),
                                   !.animation_progress = Zero,
                                   !.initial_progress = Zero]
         IN  [self |-> after, ret |-> EnterResult(after)]
    ELSE IF self.started_at # None
         THEN IF self.direction = Forward
              THEN [self |-> Retarget(self, Backward, now), ret |-> TRUE]
              ELSE [self |-> self, ret |-> TRUE]
         ELSE [self |-> self, ret |-> FALSE]

\* on_press with the defect of keeping the baseline of the run it replaces.
on_press_keep_baseline(self, now) ==
    [self EXCEPT !.started_at = Some(now),
                 !.direction = Forward,
                 !.animation_progress = Zero]

\* on_press(&mut self), with now = Instant::now().
on_press(self, now) ==
    [self EXCEPT !.started_at = Some(now),
                 !.direction = Forward,
                 !.animation_progress = Zero,
                 !.initial_progress = Zero]

\* on_released with the defect of keeping the baseline of the run it replaces.
on_released_keep_baseline(self, now) ==
    [self EXCEPT !.started_at = Some(now),
                 !.direction = Backward]

\* on_released(&mut self), with now = Instant::now().
on_released(self, now) ==
    [self EXCEPT !.started_at = Some(now),
                 !.direction = Backward,
                 !.initial_progress = self.animation_progress]

\* on_activate with the defect of not jumping to 1.0.
on_activate_keep_progress(self, now) ==
    [self EXCEPT !.started_at = Some(now),
                 !.direction = Backward,
                 !.initial_progress = One]

\* on_activate(&mut self), with now = Instant::now().
on_activate(self, now) ==
    [self EXCEPT !.started_at = Some(now),
                 !.direction = Backward,
                 !.initial_progress = One,
                 !.animation_progress = One]

-----------------------------------------------------------------------------
(* binary32                                                                 *)
(*                                                                          *)
(* mix multiplies channels by ratios that are no powers of two, so its      *)
(* results are rounded; the identities claimed of it are equalities of      *)
(* rounded values.  Its arithmetic is therefore modelled in binary32        *)
(* itself: a finite value is m * 2^e with m = 0, or with 24 significant     *)
(* bits in m (2^23 <= |m| < 2^24), and every operation rounds to nearest,   *)
(* ties to even.  The inputs of the model keep every exponent far from the  *)
(* subnormal and the overflow range, which are not modelled.                *)

\* The number of bits of the significand of an f32.
Precision == 24

\* The binary32 values: finite ones and NaN.
B32 == [k : {"fin", "nan"}, m : Int, e : Int]

BNaN == [k |-> "nan", m |-> 0, e |-> 0]
BZero == [k |-> "fin", m |-> 0, e |-> 0]

Abs[n \in Int] == IF n < 0 THEN -n ELSE n

\* The number of bits of n.
BitLen[n \in Nat] == IF n = 0 THEN 0 ELSE 1 + BitLen[n \div 2]

\* n with its lowest bit set when bits have been dropped below it: the
\* sticky bit of the hardware, which keeps a dropped remainder from looking
\* like a tie or like nothing.
Sticky[n \in Nat, dropped \in BOOLEAN] ==
    IF dropped /\ n % 2 = 0 THEN n + 1 ELSE n

\* The binary32 nearest to sign * n * 2^e, ties to even.
Round[sign \in {-1, 1}, n \in Nat, e \in Int] ==
    LET len == BitLen[n]
    IN  IF n = 0 THEN BZero
        ELSE IF len <= Precision
        THEN [k |-> "fin", m |-> sign * n * 2^(Precision - len),
              e |-> e - (Precision - len)]
        ELSE LET shift == len - Precision
                 q == n \div 2^shift
                 rem == n % 2^shift
                 half == 2^(shift - 1)
                 up == rem > half \/ (rem = half /\ q % 2 = 1)
                 r == IF up THEN q + 1 ELSE q
             IN  IF r = 2^Precision
                 THEN [k |-> "fin", m |-> sign * 2^(Precision - 1), e |-> e + shift + 1]
                 ELSE [k |-> "fin", m |-> sign * r, e |-> e + shift]

\* The f32 literal whose value is n * 2^e (|n| < 2^24).
Lit(n, e) == Round[IF n < 0 THEN -1 ELSE 1, Abs[n], e]

\* a == b on f32: NaN equals nothing, itself included.
BEq[a \in B32, b \in B32] == a.k # "nan" /\ b.k # "nan" /\ a = b

\* -a on f32.
BNeg[a \in B32] == IF a.k = "nan" THEN a ELSE [a EXCEPT !.m = -a.m]

\* a + b on f32.  The operand of the lower exponent is shifted to the other
\* one's, three guard bits below it, the last of them sticky.
BAdd[a \in B32, b \in B32] ==
    CASE a.k = "nan" \/ b.k = "nan" -> BNaN
      [] a.m = 0 -> b
      [] b.m = 0 -> a
      [] OTHER ->
           LET x == IF a.e >= b.e THEN a ELSE b
               y == IF a.e >= b.e THEN b ELSE a
               d == x.e - y.e
               wide == Abs[y.m] * 8
               shifted == IF d > Precision + 3
                          THEN 1
                          ELSE Sticky[wide \div 2^d, wide % 2^d # 0]
               sum == x.m * 8 + (IF y.m < 0 THEN -shifted ELSE shifted)
           IN  Round[IF sum < 0 THEN -1 ELSE 1, Abs[sum], x.e - 3]

\* a - b on f32.
BSub[a \in B32, b \in B32] == BAdd[a, BNeg[b]]

\* a * b on f32.  The 48-bit product of the significands is formed from
\* 12-bit halves, and its low 21 bits are folded into a sticky bit.
BMul[a \in B32, b \in B32] ==
    CASE a.k = "nan" \/ b.k = "nan" -> BNaN
      [] a.m = 0 \/ b.m = 0 -> BZero
      [] OTHER ->
           LET ah == Abs[a.m] \div 4096
               al == Abs[a.m] % 4096
               bh == Abs[b.m] \div 4096
               bl == Abs[b.m] % 4096
               mid == ah * bl + al * bh
               low == (mid % 4096) * 4096 + al * bl
               hi == ah * bh + mid \div 4096 + low \div 2^24
               lo == low % 2^24
               n == Sticky[hi * 8 + lo \div 2^21, lo % 2^21 # 0]
           IN  Round[IF (a.m < 0) = (b.m < 0) THEN 1 ELSE -1, n, a.e + b.e + 21]

\* a < b on f32: false when either is NaN.
BLt[a \in B32, b \in B32] ==
    /\ a.k # "nan"
    /\ b.k # "nan"
    /\ BSub[a, b].m < 0

\* f32::clamp(self, min, max): NaN stays NaN.
BClamp[x \in B32, min \in B32, max \in B32] ==
    IF BLt[x, min] THEN min
    ELSE IF BLt[max, x] THEN max
    ELSE x

-----------------------------------------------------------------------------
(* mix *)

\* The fields of iced's Color.
Channels == {"r", "g", "b", "a"}

\* color == other on Color: the derived PartialEq compares field by field.
ColorEq(color, other) == \A c \in Channels : BEq[color[c], other[c]]

\* mix with the defect of weighting the two colors the other way round.
mix_swapped(color, other, ratio) ==
    LET self_ratio == BSub[Lit(1, 0), ratio]
    IN  [c \in Channels |->
            BClamp[BAdd[BMul[color[c], ratio], BMul[other[c], self_ratio]],
                   BZero, Lit(1, 0)]]

\* mix(mut color: Color, other: Color, ratio: f32) -> Color
mix(color, other, ratio) ==
    LET self_ratio == BSub[Lit(1, 0), ratio]
    IN  [c \in Channels |->
            BClamp[BAdd[BMul[color[c], self_ratio], BMul[other[c], ratio]],
                   BZero, Lit(1, 0)]]

-----------------------------------------------------------------------------
(* The host: the widget that owns the animation and the durations it passes *)

\* forward_duration_ms and backward_duration_ms as the host configures them:
\* forward may be 0, backward is positive.
ForwardDurations == {0, 2, 4}
BackwardDurations == {2, 4}

\* The instants the monotonic clock can show next.
Later(limit) == {t \in clock .. clock + MaxStep : t <= limit}

\* What `last` records of a call: its name, its arguments (0 and FALSE where
\* it has none) and the state the call found.
Call(op, fwd, bwd, over, now) ==
    [op |-> op, forward_duration_ms |-> fwd, backward_duration_ms |-> bwd,
     is_mouse_over |-> over, now |-> now, before |-> anim]

Init ==
    /\ anim \in {new(e) : e \in AnimationEffect}
    /\ clock = 0
    /\ needs_redraw = FALSE
    /\ last = [op |-> "new", forward_duration_ms |-> 0, backward_duration_ms |-> 0,
               is_mouse_over |-> FALSE, now |-> 0, before |-> anim]
    /\ blend = None

Reset ==
    /\ anim' = reset(anim)
    /\ last' = Call("reset", 0, 0, FALSE, clock)
    /\ UNCHANGED blend
    /\ UNCHANGED <<clock, needs_redraw>>

Press ==
    \E now \in Later(MaxTime) :
        /\ clock' = now
        /\ anim' = on_press(anim, now)
        /\ last' = Call("on_press", 0, 0, FALSE, now)
        /\ UNCHANGED blend
        /\ UNCHANGED needs_redraw

Released ==
    \E now \in Later(MaxTime) :
        /\ clock' = now
        /\ anim' = on_released(anim, now)
        /\ last' = Call("on_released", 0, 0, FALSE, now)
        /\ UNCHANGED blend
        /\ UNCHANGED needs_redraw

Activate ==
    \E now \in Later(MaxTime) :
        /\ clock' = now
        /\ anim' = on_activate(anim, now)
        /\ last' = Call("on_activate", 0, 0, FALSE, now)
        /\ UNCHANGED blend
        /\ UNCHANGED needs_redraw

CursorMoved ==
    \E now \in Later(MaxTime), over \in BOOLEAN :
        LET r == on_cursor_moved_update(anim, over, now)
        IN  /\ clock' = now
            /\ anim' = r.self
            /\ needs_redraw' = r.ret
            /\ last' = Call("on_cursor_moved_update", 0, 0, over, now)
            /\ UNCHANGED blend

RedrawRequest ==
    \E now \in Later(MaxTime), fwd \in ForwardDurations, bwd \in BackwardDurations :
        LET r == on_redraw_request_update(anim, fwd, bwd, now)
        IN  /\ clock' = now
            /\ anim' = r.self
            /\ needs_redraw' = r.ret
            /\ last' = Call("on_redraw_request_update", fwd, bwd, FALSE, now)
            /\ UNCHANGED blend

Next ==
    \/ Reset
    \/ Press
    \/ Released
    \/ Activate
    \/ CursorMoved
    \/ RedrawRequest

Spec == Init /\ [][Next]_vars


-----------------------------------------------------------------------------
(* The press/release cycle: on_press, redraws, on_released, then redraws    *)
(* only, each at a strictly later instant, with positive durations.  The    *)
(* host keeps requesting redraws (section 5 of the design: it ticks while   *)
(* the previous tick asked for one), which is the fairness of SpecCycle.    *)

PositiveForwardDurations == ForwardDurations \ {0}

LongestBackward == CHOOSE d \in BackwardDurations : \A e \in BackwardDurations : e <= d

\* The clock of the cycle stops at Horizon, later than the end of any unwind
\* that starts by MaxTime.
Horizon == MaxTime + LongestBackward + MaxStep

\* The instants of the redraws after the release: strictly later than the
\* clock, until the clock stops.
UnwindInstants ==
    IF clock < Horizon
    THEN {t \in clock + 1 .. clock + MaxStep : t <= Horizon}
    ELSE {Horizon}

CyclePress ==
    /\ last.op = "new"
    /\ Press

CycleRedrawForward ==
    /\ last.op # "new"
    /\ anim.direction = Forward
    /\ \E now \in Later(MaxTime), fwd \in PositiveForwardDurations,
          bwd \in BackwardDurations :
          LET r == on_redraw_request_update(anim, fwd, bwd, now)
          IN  /\ clock' = now
              /\ anim' = r.self
              /\ needs_redraw' = r.ret
              /\ last' = Call("on_redraw_request_update", fwd, bwd, FALSE, now)
              /\ UNCHANGED blend

CycleReleased ==
    /\ last.op # "new"
    /\ anim.direction = Forward
    /\ Released

CycleRedrawBackward ==
    /\ anim.direction = Backward
    /\ \E now \in UnwindInstants, fwd \in PositiveForwardDurations,
          bwd \in BackwardDurations :
          LET r == on_redraw_request_update(anim, fwd, bwd, now)
          IN  /\ clock' = now
              /\ anim' = r.self
              /\ needs_redraw' = r.ret
              /\ last' = Call("on_redraw_request_update", fwd, bwd, FALSE, now)
              /\ UNCHANGED blend

NextCycle ==
    \/ CyclePress
    \/ CycleRedrawForward
    \/ CycleReleased
    \/ CycleRedrawBackward

SpecCycle == Init /\ [][NextCycle]_vars /\ WF_vars(CycleRedrawBackward)

-----------------------------------------------------------------------------
(* The unwinds: any events and redraws while the direction is Forward, then *)
(* an on_activate, an on_released or a cursor leave, then redraws only,     *)
(* each at a strictly later instant, with positive durations.  The fairness *)
(* is that of the cycle: the host ticks while the previous tick asked for   *)
(* a redraw.                                                                *)

UnwindPress ==
    /\ anim.direction = Forward
    /\ Press

UnwindCursorMoved ==
    /\ anim.direction = Forward
    /\ CursorMoved

UnwindRedrawForward ==
    /\ anim.direction = Forward
    /\ \E now \in Later(MaxTime), fwd \in PositiveForwardDurations,
          bwd \in BackwardDurations :
          LET r == on_redraw_request_update(anim, fwd, bwd, now)
          IN  /\ clock' = now
              /\ anim' = r.self
              /\ needs_redraw' = r.ret
              /\ last' = Call("on_redraw_request_update", fwd, bwd, FALSE, now)
              /\ UNCHANGED blend

UnwindActivate ==
    /\ anim.direction = Forward
    /\ Activate

UnwindReleased ==
    /\ anim.direction = Forward
    /\ Released

NextUnwind ==
    \/ UnwindPress
    \/ UnwindCursorMoved
    \/ UnwindRedrawForward
    \/ UnwindActivate
    \/ UnwindReleased
    \/ CycleRedrawBackward

SpecUnwind == Init /\ [][NextUnwind]_vars /\ WF_vars(CycleRedrawBackward)

-----------------------------------------------------------------------------
(* The calls of mix: the theming layer blends two colors of its palette by  *)
(* a ratio, which is the progress of an animation (NaN included, C1).       *)

Color(r, g, b, a) == [r |-> r, g |-> g, b |-> b, a |-> a]

\* 0.1f32 and 0.2f32.
Tenth == Lit(13421773, -27)
Fifth == Lit(13421773, -26)

\* Colors of channels in [0, 1], one of a channel above 1.0 and one of a NaN
\* channel (the fields of Color are public and unchecked).
Palette ==
    {Color(BZero, BZero, BZero, Lit(1, 0)),
     Color(Lit(1, 0), Lit(1, 0), Lit(1, 0), Lit(1, 0)),
     Color(BZero, BZero, BZero, BZero),
     Color(Fifth, Lit(1, -1), Lit(3, -2), Lit(1, 0)),
     Color(Tenth, Fifth, Lit(3, -2), Lit(1, -1)),
     Color(Lit(1, 1), Lit(1, 0), Lit(1, 0), Lit(1, 0)),
     Color(BNaN, BZero, BZero, Lit(1, 0))}

\* 0.0, 1.0, 0.5, 0.25, 0.8125, 0.1, 2.0 and NaN.
MixRatios ==
    {BZero, Lit(1, 0), Lit(1, -1), Lit(1, -2), Lit(13, -4), Tenth, Lit(1, 1), BNaN}

InitMix ==
    /\ anim = new(Linear)
    /\ clock = 0
    /\ needs_redraw = FALSE
    /\ last = [op |-> "new", forward_duration_ms |-> 0, backward_duration_ms |-> 0,
               is_mouse_over |-> FALSE, now |-> 0, before |-> anim]
    /\ blend \in [color : Palette, other : Palette, ratio : MixRatios, mixed : {None}]

Mix ==
    /\ blend.mixed = None
    /\ blend' = [blend EXCEPT !.mixed = Some(mix(blend.color, blend.other, blend.ratio))]
    /\ UNCHANGED <<anim, clock, needs_redraw, last>>

NextMix == Mix

SpecMix == InitMix /\ [][NextMix]_vars

-----------------------------------------------------------------------------
(* Abbreviations of the properties *)

\* 0.0 <= x <= 1.0 (false of NaN).
InUnit(x) == x.k = "fin" /\ 0 <= x.v /\ x.v <= Scale

\* Strictly between 0.0 and 1.0.
Inside(x) == x.k = "fin" /\ 0 < x.v /\ x.v < Scale

Ticked == last.op = "on_redraw_request_update"
CursorMovedTo(over) == last.op = "on_cursor_moved_update" /\ last.is_mouse_over = over

\* The state the latest call found.
before == last.before

-----------------------------------------------------------------------------
(* C1 *)

\* C1: in every reachable state animation_progress and initial_progress lie
\* in [0.0, 1.0], for forward_duration_ms >= 0 and backward_duration_ms > 0.
\* (The code violates it: a tick with forward_duration_ms = 0 in the
\* millisecond of a Forward start computes 0.0/0.0.)
C1_ProgressInRange ==
    /\ InUnit(anim.animation_progress)
    /\ InUnit(anim.initial_progress)

-----------------------------------------------------------------------------
(* C2 *)

\* C2: in the press/release cycle with positive durations, once on_released
\* has been called the redraws at strictly increasing instants lead to
\* animation_progress == 0.0 with is_running() == false, and from then on
\* every tick returns false and changes nothing.
C2_CycleTerminates ==
    /\ (anim.direction = Backward)
           ~> (~is_running(anim) /\ FEq[anim.animation_progress, Zero])
    /\ [][(anim.direction = Backward /\ ~is_running(anim))
              => (anim' = anim /\ needs_redraw' = FALSE)]_vars
    /\ [](anim.direction = Backward /\ is_running(anim) => clock < Horizon)

\* A tick after the unwind of a press released in mid-flight returned false.
C2_Witness ==
    /\ Ticked
    /\ ~is_running(before)
    /\ before.direction = Backward
    /\ Inside(before.initial_progress)
    /\ FEq[anim.animation_progress, Zero]
    /\ needs_redraw = FALSE

-----------------------------------------------------------------------------
(* C3 *)

\* The latest call was a tick of a Backward run and it stored 0.0.
StoredZero ==
    /\ Ticked
    /\ is_running(before)
    /\ is_running(anim)
    /\ anim.direction = Backward
    /\ FEq[anim.animation_progress, Zero]
    /\ needs_redraw = TRUE

\* The call being made is a tick.
Ticking == last'.op = "on_redraw_request_update"

-----------------------------------------------------------------------------
(* C4 *)

\* C4: on_redraw_request_update returns true if and only if is_running() was
\* true when the call began, and a call that begins idle changes no field.
C4_TickReturnsRunningOnEntry ==
    Ticked =>
        /\ needs_redraw = is_running(before)
        /\ ~is_running(before) => anim = before

\* A tick found the machine idle after a completed unwind and returned false.
C4_Witness ==
    /\ Ticked
    /\ ~is_running(before)
    /\ before.direction = Backward
    /\ anim = before
    /\ needs_redraw = FALSE

-----------------------------------------------------------------------------
(* C5 *)

DirectionChanged == anim.direction # before.direction

\* C5 as stated: every call of on_cursor_moved_update, on_press, on_released,
\* on_activate or reset that changes direction leaves animation_progress as
\* it was.
C5_EveryReversalContinuous ==
    (last.op \in {"on_cursor_moved_update", "on_press", "on_released",
                  "on_activate", "reset"} /\ DirectionChanged)
        => anim.animation_progress = before.animation_progress

\* C5 amended: every call of on_cursor_moved_update or on_released that
\* changes direction leaves animation_progress as it was (on_press,
\* on_activate and reset set it to 0.0, 1.0 and 0.0).
C5_CursorAndReleaseContinuous ==
    /\ (last.op \in {"on_cursor_moved_update", "on_released"} /\ DirectionChanged)
          => anim.animation_progress = before.animation_progress
    /\ last.op \in {"on_press", "reset"} => anim.animation_progress = Zero
    /\ last.op = "on_activate" => anim.animation_progress = One

\* The cursor left during a Forward run that was part of the way.
C5_Witness ==
    /\ CursorMovedTo(FALSE)
    /\ is_running(before)
    /\ before.direction = Forward
    /\ anim.direction = Backward
    /\ Inside(anim.animation_progress)

-----------------------------------------------------------------------------
(* C6 *)

\* C6: on_cursor_moved_update(true) while running Forward,
\* on_cursor_moved_update(false) while running Backward and
\* on_cursor_moved_update(false) while idle change no field.
C6_SameDirectionCursorNoOp ==
    (\/ CursorMovedTo(TRUE) /\ is_running(before) /\ before.direction = Forward
     \/ CursorMovedTo(FALSE) /\ is_running(before) /\ before.direction = Backward
     \/ CursorMovedTo(FALSE) /\ ~is_running(before))
        => anim = before

\* The cursor moved over the widget some time into a Forward run.
C6_Witness ==
    /\ CursorMovedTo(TRUE)
    /\ is_running(before)
    /\ before.direction = Forward
    /\ before.started_at[1] < last.now
    /\ Inside(before.animation_progress)
    /\ anim = before

-----------------------------------------------------------------------------
(* C7 *)

\* C7 as stated: on_cursor_moved_update(true) returns true, whatever the
\* state it is called in.
C7_EnterAlwaysTrue ==
    CursorMovedTo(TRUE) => needs_redraw = TRUE

\* C7 amended: on_cursor_moved_update(true) returns true when called while
\* idle; called while running, Forward or Backward, it leaves
\* animation_progress as it was and returns true exactly when
\* animation_progress != 1.0.
C7_EnterTrueUnlessAtOne ==
    CursorMovedTo(TRUE) =>
        /\ ~is_running(before) => needs_redraw = TRUE
        /\ is_running(before) =>
              /\ anim.animation_progress = before.animation_progress
              /\ needs_redraw = FNe[before.animation_progress, One]

\* The cursor entered during a Backward run still at 1.0: no redraw is asked.
C7_Witness ==
    /\ CursorMovedTo(TRUE)
    /\ is_running(before)
    /\ before.direction = Backward
    /\ FEq[before.animation_progress, One]
    /\ needs_redraw = FALSE

-----------------------------------------------------------------------------
(* C8 *)

\* The call started a run in direction d at the call instant, from the
\* progress it found.
RetargetedTo(d) ==
    /\ anim.direction = d
    /\ anim.started_at = Some(last.now)
    /\ anim.animation_progress = before.animation_progress
    /\ anim.initial_progress = before.animation_progress
    /\ anim.effect = before.effect

\* C8: after on_released in any state, after on_cursor_moved_update(true)
\* while running Backward and after on_cursor_moved_update(false) while
\* running Forward, the machine runs Backward, Forward and Backward, with
\* started_at the call instant, animation_progress as it was and
\* initial_progress that same value.
C8_RetargetKeepsBaseline ==
    /\ last.op = "on_released" => RetargetedTo(Backward)
    /\ (CursorMovedTo(TRUE) /\ is_running(before) /\ before.direction = Backward)
          => RetargetedTo(Forward)
    /\ (CursorMovedTo(FALSE) /\ is_running(before) /\ before.direction = Forward)
          => RetargetedTo(Backward)

\* on_released some time into a Forward run that had moved off its baseline.
C8_Witness ==
    /\ last.op = "on_released"
    /\ is_running(before)
    /\ before.direction = Forward
    /\ before.started_at[1] < last.now
    /\ Inside(before.animation_progress)
    /\ before.initial_progress # before.animation_progress

-----------------------------------------------------------------------------
(* C9 *)

\* The progress a Forward run from baseline 0.0 has after e of d milliseconds.
FromZero(effect, e, d) ==
    CASE effect = Linear -> FClamp[FDiv[FromInt(e), FromInt(d)], Zero, One]
      [] effect = EaseOut ->
            LET u == FSub[One, FDiv[FromInt(e), FromInt(d)]]
            IN  FClamp[FSub[One, FMul[u, FMul[u, u]]], Zero, One]
      [] OTHER -> Zero

\* C9: after on_press in any state the machine runs Forward from
\* animation_progress == initial_progress == 0.0 with started_at the call
\* instant, and the next tick (with a positive forward duration) computes
\* the progress from baseline 0 and the time since the press alone.
C9_PressRestartsFromZero ==
    /\ [](last.op = "on_press" =>
             /\ anim.direction = Forward
             /\ anim.started_at = Some(last.now)
             /\ anim.animation_progress = Zero
             /\ anim.initial_progress = Zero
             /\ anim.effect = before.effect)
    /\ [][(last.op = "on_press" /\ Ticking /\ last'.forward_duration_ms > 0)
              => anim'.animation_progress =
                     FromZero(anim.effect, last'.now - last.now,
                              last'.forward_duration_ms)]_vars

\* on_press in the middle of an unwind.
C9_Witness ==
    /\ last.op = "on_press"
    /\ is_running(before)
    /\ before.direction = Backward
    /\ Inside(before.animation_progress)
    /\ Inside(before.initial_progress)
    /\ anim.animation_progress = Zero

-----------------------------------------------------------------------------
(* C10 *)

\* C10: after on_activate in any state the machine runs Backward from
\* animation_progress == initial_progress == 1.0 with started_at the call
\* instant.
C10_ActivateStartsUnwindAtOne ==
    last.op = "on_activate" =>
        /\ anim.direction = Backward
        /\ anim.started_at = Some(last.now)
        /\ anim.animation_progress = One
        /\ anim.initial_progress = One
        /\ anim.effect = before.effect

\* on_activate during a Forward run that was part of the way.
C10_Witness ==
    /\ last.op = "on_activate"
    /\ is_running(before)
    /\ before.direction = Forward
    /\ Inside(before.animation_progress)
    /\ anim.animation_progress = One


-----------------------------------------------------------------------------
(* C11 *)

\* C11: after reset in any state is_running() == false, direction == Forward,
\* animation_progress == initial_progress == 0.0 and the effect is the one
\* it was, and a tick that follows returns false and changes no field.
C11_ResetDiscardsRun ==
    /\ [](last.op = "reset" => anim = new(before.effect))
    /\ [][(last.op = "reset" /\ Ticking)
              => (needs_redraw' = FALSE /\ anim' = anim)]_vars

\* reset in the middle of an unwind that had moved off its baseline.
C11_Witness ==
    /\ last.op = "reset"
    /\ is_running(before)
    /\ before.direction = Backward
    /\ Inside(before.animation_progress)
    /\ FNe[before.initial_progress, Zero]
    /\ ~is_running(anim)

-----------------------------------------------------------------------------
(* C12 *)

\* The latest call started a Forward run: on_press, or the cursor entering
\* while idle or while running Backward.
ForwardStarted ==
    \/ last.op = "on_press"
    \/ /\ CursorMovedTo(TRUE)
       /\ ~is_running(before) \/ before.direction = Backward

\* C12: with forward_duration_ms == 0 the first tick after any start of a
\* Forward run leaves animation_progress == 1.0, for every effect and every
\* elapsed time, 0 ms included.  (The code violates it: the effect's arm
\* runs after the snap and divides the elapsed time by the zero duration,
\* which is NaN when 0 ms have elapsed.)
C12_ZeroForwardIsInstant ==
    [][(ForwardStarted /\ Ticking /\ last'.forward_duration_ms = 0)
           => FEq[anim'.animation_progress, One]]_vars

-----------------------------------------------------------------------------
(* C13 *)

\* The effect table: f(t) = t for Linear and f(t) = 1 - (1 - t)^3 for EaseOut.
EffectTable(effect, t) ==
    IF effect = Linear
    THEN t
    ELSE LET u == FSub[One, t]
         IN  FSub[One, FMul[u, FMul[u, u]]]

\* clamp(initial_progress + sign * f(t), 0, 1) with t = elapsed / duration of
\* the direction, sign = +1 for Forward and -1 for Backward.
TableProgress(self, elapsed, forward_duration_ms, backward_duration_ms) ==
    LET t == IF self.direction = Forward
             THEN FDiv[FromInt(elapsed), FromInt(forward_duration_ms)]
             ELSE FDiv[FromInt(elapsed), FromInt(backward_duration_ms)]
        f == EffectTable(self.effect, t)
    IN  IF self.direction = Forward
        THEN FClamp[FAdd[self.initial_progress, f], Zero, One]
        ELSE FClamp[FAdd[self.initial_progress, FNeg[f]], Zero, One]

\* The half of 1.0.
Half == FDiv[One, FromInt(2)]

\* C13: a tick with positive durations that finds the machine running and
\* the unwind not completed stores clamp(initial_progress + sign * f(t), 0, 1)
\* for Linear and EaseOut, leaves animation_progress as it was for None, and
\* changes no other field; Linear gives 0.5 at half the forward duration
\* after on_press and 0.0 at half the backward duration after an on_released
\* taken at progress 0.5.
C13_TickEvaluatesEffectTable ==
    (/\ Ticked
     /\ is_running(before)
     /\ last.forward_duration_ms > 0
     /\ last.backward_duration_ms > 0
     /\ ~(FEq[before.animation_progress, Zero] /\ before.direction = Backward))
        => /\ anim = [before EXCEPT !.animation_progress =
                        IF before.effect = NoEffect
                        THEN before.animation_progress
                        ELSE TableProgress(before, last.now - before.started_at[1],
                                           last.forward_duration_ms,
                                           last.backward_duration_ms)]
           /\ (/\ before.effect = Linear
               /\ before.direction = Forward
               /\ before.initial_progress = Zero
               /\ 2 * (last.now - before.started_at[1]) = last.forward_duration_ms)
                  => anim.animation_progress = Half
           /\ (/\ before.effect = Linear
               /\ before.direction = Backward
               /\ before.initial_progress = Half
               /\ 2 * (last.now - before.started_at[1]) = last.backward_duration_ms)
                  => anim.animation_progress = Zero

\* Linear, forward 4 ms and backward 2 ms: released at progress 0.5, the tick
\* 1 ms later (half the backward duration) has stored 0.0.
C13_Witness ==
    /\ Ticked
    /\ before.effect = Linear
    /\ is_running(before)
    /\ before.direction = Backward
    /\ before.initial_progress = Half
    /\ before.animation_progress = Half
    /\ last.forward_duration_ms = 4
    /\ last.backward_duration_ms = 2
    /\ last.now - before.started_at[1] = 1
    /\ anim.animation_progress = Zero
    /\ needs_redraw = TRUE

-----------------------------------------------------------------------------
(* C14 *)

\* a >= b on f32: false when either is NaN.
FGe(a, b) == FEq[a, b] \/ FLt[b, a]

\* The latest call was a tick of a Forward run of an EaseOut animation, taken
\* with a positive forward duration.
EaseOutForwardTick ==
    /\ Ticked
    /\ is_running(before)
    /\ anim.effect = EaseOut
    /\ anim.direction = Forward
    /\ last.forward_duration_ms > 0

\* C14: with EaseOut, a positive forward duration and direction Forward, of
\* two ticks of one run at instants now1 <= now2 the second stores a progress
\* >= the one the first stored, and both are >= initial_progress.  (The
\* code violates it in the runs whose baseline is the NaN of C1.)
C14_EaseOutForwardMonotonic ==
    [][(/\ EaseOutForwardTick
        /\ Ticking
        /\ last'.forward_duration_ms = last.forward_duration_ms
        /\ last'.now >= last.now)
           => /\ FGe(anim'.animation_progress, anim.animation_progress)
              /\ FGe(anim.animation_progress, anim.initial_progress)
              /\ FGe(anim'.animation_progress, anim'.initial_progress)]_vars

\* Beside C14: from a baseline that is a number the two ticks are monotonic,
\* so the NaN of C1 is the only way C14 fails.
C14_MonotonicFromNumericBaseline ==
    [][(/\ EaseOutForwardTick
        /\ anim.initial_progress.k # "nan"
        /\ Ticking
        /\ last'.forward_duration_ms = last.forward_duration_ms
        /\ last'.now >= last.now)
           => /\ FGe(anim'.animation_progress, anim.animation_progress)
              /\ FGe(anim.animation_progress, anim.initial_progress)
              /\ FGe(anim'.animation_progress, anim'.initial_progress)]_vars

-----------------------------------------------------------------------------
(* C16 *)

\* The call found a Forward run that had reached 1.0.
FoundHoveredExtreme ==
    /\ is_running(before)
    /\ before.direction = Forward
    /\ FEq[before.animation_progress, One]

\* C16: once a Forward run has reached animation_progress == 1.0, the calls
\* of on_cursor_moved_update(true) and on_redraw_request_update that follow
\* return false.  (The code violates it: nothing stops a Forward run, and a
\* tick of a running machine returns true.)
C16_QuietAtHoveredExtreme ==
    (/\ Ticked \/ CursorMovedTo(TRUE)
     /\ FoundHoveredExtreme
     /\ Ticked => last.forward_duration_ms > 0
     /\ FEq[anim.animation_progress, One])
        => needs_redraw = FALSE

-----------------------------------------------------------------------------
(* C17 *)

\* C17: a tick of a Backward run with forward_duration_ms == 0 leaves what
\* the same tick leaves with a nonzero forward duration: the progress of the
\* effect table, and the run stopped once the progress found is 0.0.  (The
\* code violates it: the snap to 1.0 comes before the completion test and
\* before the None arm.)
C17_ZeroForwardLeavesUnwindAlone ==
    (/\ Ticked
     /\ is_running(before)
     /\ before.direction = Backward
     /\ last.forward_duration_ms = 0)
        => /\ \A fwd \in PositiveForwardDurations :
                 anim = on_redraw_request_update(before, fwd,
                            last.backward_duration_ms, last.now).self
           /\ FEq[before.animation_progress, Zero] => ~is_running(anim)

-----------------------------------------------------------------------------
(* C19 *)

-----------------------------------------------------------------------------
(* C20 *)

\* C20: every reachable idle state has direction == Forward and
\* initial_progress == 0.0, as the state of new() and reset() has.  (The
\* code violates it: the completion of an unwind clears started_at only.)
C20_IdleIsTheRestState ==
    ~is_running(anim)
        => anim.direction = Forward /\ FEq[anim.initial_progress, Zero]

-----------------------------------------------------------------------------
(* C18 *)

\* The machine is idle and the latest tick returned false.
RedrawLoopStopped == ~is_running(anim) /\ Ticked /\ needs_redraw = FALSE

\* C18: for every effect, with positive durations, an unwind (started by
\* on_activate, on_released or a cursor leave, and followed by redraws only)
\* leads to is_running() == false and a tick that returns false.  (The code
\* violates it for the effect None after on_activate.)
C18_EveryUnwindEnds == (anim.direction = Backward) ~> RedrawLoopStopped

\* Beside C18: the unwinds of Linear and EaseOut do end.
C18_TimedUnwindsEnd ==
    (anim.direction = Backward /\ anim.effect # NoEffect) ~> RedrawLoopStopped

-----------------------------------------------------------------------------
(* C15 *)

\* mix has been called; Mixed is what it returned.
MixCalled == blend # None /\ blend.mixed # None
Mixed == blend.mixed[1]

\* Every channel is a number of [0, 1].
InRange(color) ==
    \A c \in Channels :
        /\ color[c].k = "fin"
        /\ ~BLt[color[c], BZero]
        /\ ~BLt[Lit(1, 0), color[c]]

\* |x - y| <= 2^-22, four units of the last place of 1.0.
Close(x, y) ==
    LET d == BSub[x, y]
    IN  d.k = "fin" /\ ~BLt[Lit(1, -22), d] /\ ~BLt[d, Lit(-1, -22)]

\* The ratio is a number of [0, 1].
RatioInRange ==
    /\ blend.ratio.k = "fin"
    /\ ~BLt[blend.ratio, BZero]
    /\ ~BLt[Lit(1, 0), blend.ratio]

\* C15: for all colors A and B and every ratio r, mix(A, A, r) == A,
\* mix(A, B, 0.0) == A and mix(A, B, 1.0) == B; stated here of the colors
\* and the ratios of [0, 1] alone, where it fails already.
C15_MixIdentities ==
    (MixCalled /\ InRange(blend.color) /\ InRange(blend.other) /\ RatioInRange)
        => /\ blend.color = blend.other => ColorEq(Mixed, blend.color)
           /\ BEq[blend.ratio, BZero] => ColorEq(Mixed, blend.color)
           /\ BEq[blend.ratio, Lit(1, 0)] => ColorEq(Mixed, blend.other)

\* C15 as the code has it: for colors whose channels are in [0, 1],
\* mix(A, B, 0.0) == A and mix(A, B, 1.0) == B; and for a ratio of [0, 1]
\* every channel of mix(A, A, r) is within 2^-22 of A's, equal or not.
C15_MixIdentitiesInRange ==
    (MixCalled /\ InRange(blend.color) /\ InRange(blend.other))
        => /\ BEq[blend.ratio, BZero] => ColorEq(Mixed, blend.color)
           /\ BEq[blend.ratio, Lit(1, 0)] => ColorEq(Mixed, blend.other)
           /\ (blend.color = blend.other /\ RatioInRange)
                  => \A c \in Channels : Close(Mixed[c], blend.color[c])

\* mix(A, A, r) of a color in range, and the result is not A.
C15_Witness ==
    /\ MixCalled
    /\ InRange(blend.color)
    /\ blend.color = blend.other
    /\ RatioInRange
    /\ InRange(Mixed)
    /\ ~ColorEq(Mixed, blend.color)

=============================================================================
